---- MODULE Spec2Model ----
(***************************************************************************)
(* Model of app.py, the Streamlit "Manufacturing Energy Analyzer".         *)
(*                                                                         *)
(* A text is a sequence of tokens.  A token is one character where the     *)
(* character matters to the fence stripping or to the JSON grammar (the    *)
(* backtick, the letters j s o n, white space, the JSON punctuation), and  *)
(* otherwise a whole word or number literal ("ratePerKwh", "0.087") that   *)
(* contains no backtick, does not begin a fence marker and is not white    *)
(* space, so that str.replace and str.strip treat it as they treat its     *)
(* letters.                                                                *)
(***************************************************************************)
EXTENDS Integers, Sequences, FiniteSets, TLC

VARIABLES session_state, uploaded_file, pc, bill_analysis, web_research,
          search_context, message, displayed,
          calls, wrote, failedAt, response, agent3_args,
          raw, once, twice

vars == <<session_state, uploaded_file, pc, bill_analysis, web_research,
          search_context, message, displayed,
          calls, wrote, failedAt, response, agent3_args,
          raw, once, twice>>

appVars == <<session_state, uploaded_file, pc, bill_analysis, web_research,
             search_context, message, displayed,
             calls, wrote, failedAt, response, agent3_args>>

normVars == <<raw, once, twice>>

(***************************************************************************)
(* Text: str.replace(old, "") and str.strip()                              *)
(***************************************************************************)
\* The backtick character.
BT == "BACKTICK"

FenceJson == <<BT, BT, BT, "j", "s", "o", "n">>

Fence == <<BT, BT, BT>>

Whitespace == {" ", "\n"}

\* s.replace(pat, ""): every non-overlapping occurrence, scanning from the left.
RECURSIVE RemoveAll(_, _)
RemoveAll(s, pat) ==
    IF Len(s) < Len(pat) THEN s
    ELSE IF SubSeq(s, 1, Len(pat)) = pat
         THEN RemoveAll(SubSeq(s, Len(pat) + 1, Len(s)), pat)
         ELSE <<Head(s)>> \o RemoveAll(Tail(s), pat)

RECURSIVE LStrip(_)
LStrip(s) ==
    IF s # <<>> /\ Head(s) \in Whitespace THEN LStrip(Tail(s)) ELSE s

RECURSIVE RStrip(_)
RStrip(s) ==
    IF s # <<>> /\ s[Len(s)] \in Whitespace
    THEN RStrip(SubSeq(s, 1, Len(s) - 1)) ELSE s

Strip(s) == RStrip(LStrip(s))

\* A slip that strips before the markers are removed.
NormalizeStripFirst(text) == RemoveAll(RemoveAll(Strip(text), FenceJson), Fence)

\* text.replace(FenceJson, "").replace(Fence, "").strip()
Normalize(text) == Strip(RemoveAll(RemoveAll(text, FenceJson), Fence))

(***************************************************************************)
(* json.loads on the grammar the responses use: numbers (one literal       *)
(* token), strings without escapes, arrays, objects, white space between   *)
(* tokens.  A value is a record tagged by its Python type.                 *)
(***************************************************************************)
\* The number literals of the model; a number is held in ten-thousandths.
NumVal ==
    ("0" :> 0) @@ ("1" :> 10000) @@ ("2" :> 20000) @@ ("-1" :> -10000) @@
    ("0.087" :> 870) @@ ("15.50" :> 155000)

Num(n) == [t |-> "num", v |-> n]

Str(s) == [t |-> "str", v |-> s]

Arr(a) == [t |-> "arr", v |-> a]

Obj(f) == [t |-> "obj", v |-> f]

EmptyObj == Obj(<<>>)

\* The result of a failed parse step.
NoParse == [ok |-> FALSE]

Parsed(val, next) == [ok |-> TRUE, val |-> val, next |-> next]

RECURSIVE SkipWs(_, _)
SkipWs(s, i) ==
    IF i <= Len(s) /\ s[i] \in Whitespace THEN SkipWs(s, i + 1) ELSE i

\* The index of the closing quote of the string whose content starts at i, or 0.
RECURSIVE CloseQuote(_, _)
CloseQuote(s, i) ==
    IF i > Len(s) THEN 0
    ELSE IF s[i] = "\"" THEN i ELSE CloseQuote(s, i + 1)

ParseString(s, i) ==
    LET c == CloseQuote(s, i + 1)
    IN  IF c = 0 THEN NoParse ELSE Parsed(Str(SubSeq(s, i + 1, c - 1)), c + 1)

RECURSIVE ParseValue(_, _)
RECURSIVE ParseElems(_, _, _)
RECURSIVE ParseMembers(_, _, _)

\* After "[" or ",": a value, then "," or "]".
ParseElems(s, i, acc) ==
    LET r == ParseValue(s, SkipWs(s, i))
    IN  IF ~r.ok THEN NoParse
        ELSE LET k == SkipWs(s, r.next)
             IN  IF k > Len(s) THEN NoParse
                 ELSE IF s[k] = "," THEN ParseElems(s, k + 1, Append(acc, r.val))
                 ELSE IF s[k] = "]" THEN Parsed(Arr(Append(acc, r.val)), k + 1)
                 ELSE NoParse

\* After "{" or ",": a string key, ":", a value, then "," or "}".  A repeated
\* key keeps its last value.
ParseMembers(s, i, acc) ==
    LET j == SkipWs(s, i)
    IN  IF j > Len(s) \/ s[j] # "\"" THEN NoParse
        ELSE LET key == ParseString(s, j)
             IN  IF ~key.ok THEN NoParse
                 ELSE LET c == SkipWs(s, key.next)
                      IN  IF c > Len(s) \/ s[c] # ":" THEN NoParse
                          ELSE LET r == ParseValue(s, SkipWs(s, c + 1))
                               IN  IF ~r.ok THEN NoParse
                                   ELSE LET k == SkipWs(s, r.next)
                                            f == (key.val.v :> r.val) @@ acc
                                        IN  IF k > Len(s) THEN NoParse
                                            ELSE IF s[k] = "," THEN ParseMembers(s, k + 1, f)
                                            ELSE IF s[k] = "}" THEN Parsed(Obj(f), k + 1)
                                            ELSE NoParse

ParseValue(s, i) ==
    IF i > Len(s) THEN NoParse
    ELSE IF s[i] \in DOMAIN NumVal THEN Parsed(Num(NumVal[s[i]]), i + 1)
    ELSE IF s[i] = "\"" THEN ParseString(s, i)
    ELSE IF s[i] = "["
         THEN LET j == SkipWs(s, i + 1)
              IN  IF j <= Len(s) /\ s[j] = "]" THEN Parsed(Arr(<<>>), j + 1)
                  ELSE ParseElems(s, i + 1, <<>>)
    ELSE IF s[i] = "{"
         THEN LET j == SkipWs(s, i + 1)
              IN  IF j <= Len(s) /\ s[j] = "}" THEN Parsed(EmptyObj, j + 1)
                  ELSE ParseMembers(s, i + 1, <<>>)
    ELSE NoParse

\* json.loads(text): [ok |-> TRUE, val |-> v], or [ok |-> FALSE] for JSONDecodeError.
JsonLoads(text) ==
    LET r == ParseValue(text, SkipWs(text, 1))
    IN  IF r.ok /\ SkipWs(text, r.next) = Len(text) + 1
        THEN [ok |-> TRUE, val |-> r.val]
        ELSE [ok |-> FALSE]

(***************************************************************************)
(* Python values as the handlers use them                                  *)
(***************************************************************************)
\* d.get(k, default) on a dict.
Get(d, k, default) == IF <<k>> \in DOMAIN d.v THEN d.v[<<k>>] ELSE default

\* d[k] on a dict that holds k.
Item(d, k) == d.v[<<k>>]

Has(d, k) == <<k>> \in DOMAIN d.v

\* bool(v)
Truthy(v) ==
    CASE v.t = "num" -> v.v # 0
      [] v.t = "str" -> v.v # <<>>
      [] v.t = "arr" -> v.v # <<>>
      [] v.t = "obj" -> DOMAIN v.v # {}

\* for x in v
Iterable(v) == v.t \in {"str", "arr", "obj"}

\* A Python dict or list literal of the source, as a value.
Dict(f) == Obj(f)

Field(k, v) == (<<k>> :> v)

Text(w) == Str(<<w>>)

\* The fallback of run_agent_2.
Fallback ==
    Dict(Field("averageRate", Num(870)) @@
         Field("averageDemandCharge", Num(155000)) @@
         Field("typicalUsage", Text("50,000-500,000 kWh/month depending on production volume and process intensity")) @@
         Field("recommendations", Arr(<<Text("Implement demand response programs to reduce peak charges"),
                                        Text("Install variable frequency drives (VFDs) on motors"),
                                        Text("Optimize compressed air systems (often 30% energy waste)"),
                                        Text("Upgrade to energy-efficient HVAC for production areas"),
                                        Text("Consider cogeneration/CHP for large facilities")>>)) @@
         Field("sources", Arr(<<Text("U.S. DOE Industrial Technologies Program"),
                                Text("ENERGY STAR for Industry"),
                                Text("ISO 50001 Standards")>>)))

\* The sample records of the Try Sample Data handler (long texts by their first words).
SampleBill ==
    Dict(Field("totalCost", Num(245678900)) @@
         Field("usage", Num(1873400000)) @@
         Field("demandKw", Num(8450000)) @@
         Field("ratePerKwh", Num(872)) @@
         Field("billingPeriod", Text("Nov 1 - Nov 30, 2024")) @@
         Field("powerFactor", Num(8700)) @@
         Field("unusualCharges", Arr(<<Text("Demand charge penalty: $2,450"),
                                       Text("Low power factor penalty: $387")>>)) @@
         Field("insights", Text("Peak demand occurred during 2nd shift")))

SampleResearch ==
    Dict(Field("averageRate", Num(825)) @@
         Field("averageDemandCharge", Num(147500)) @@
         Field("typicalUsage", Text("150,000-250,000 kWh/month for similar facility size and production volume")) @@
         Field("recommendations", Arr(<<Text("Install power factor correction equipment"),
                                        Text("Implement demand response"),
                                        Text("Upgrade to IE4/IE5 premium efficiency motors"),
                                        Text("Optimize compressed air system"),
                                        Text("Install VFDs on pumps, fans, and conveyors"),
                                        Text("Consider thermal energy storage")>>)) @@
         Field("sources", Arr(<<Text("U.S. DOE Advanced Manufacturing Office"),
                                Text("ENERGY STAR Industrial Energy Management"),
                                Text("ISO 50001:2018")>>)))

SampleReport ==
    Dict(Field("summary", Text("Your facility consumed 187,340 kWh")) @@
         Field("comparison", Text("Your effective rate is 5.7% above the industrial average")) @@
         Field("savings", Arr(<<Text("Power factor correction"), Text("Demand response program"),
                                Text("VFD installation on 10 motors"), Text("Compressed air leak detection/repair"),
                                Text("Waste heat recovery from processes"), Text("LED high-bay lighting upgrade")>>)) @@
         Field("nextSteps", Arr(<<Text("Schedule ASHRAE Level 2 energy audit"),
                                  Text("Contact utility for demand response incentive programs"),
                                  Text("Install real-time energy monitoring system"),
                                  Text("Conduct power quality study"),
                                  Text("Review production schedule"),
                                  Text("Apply for ISO 50001 certification"),
                                  Text("Investigate on-site solar + battery storage")>>)))

(***************************************************************************)
(* What a delegate may answer: response.choices[0].message.content         *)
(***************************************************************************)
Q(w) == <<"\"", w, "\"">>

\* "k": before the text of a value.
Key(k) == Q(k) \o <<":">>

BillFull ==
    <<"{">> \o Key("totalCost") \o <<"1", ",">> \o Key("usage") \o <<"2", ",">> \o
    Key("ratePerKwh") \o <<"0.087", ",">> \o Key("billingPeriod") \o Q("Nov 2024") \o <<",">> \o
    Key("unusualCharges") \o <<"[">> \o Q("Late fee") \o <<"]", ",">> \o
    Key("insights") \o Q("ok") \o <<"}">>

\* A complete record whose insights text holds a fenced snippet.
BillTicks ==
    <<"{">> \o Key("totalCost") \o <<"1", ",">> \o Key("usage") \o <<"2", ",">> \o
    Key("ratePerKwh") \o <<"0.087", ",">> \o Key("billingPeriod") \o Q("Nov 2024") \o <<",">> \o
    Key("unusualCharges") \o <<"[", "]", ",">> \o
    Key("insights") \o <<"\"", BT, BT, BT, "kW", BT, BT, BT, "\"">> \o <<"}">>

\* Decodable, without ratePerKwh and usage.
BillNoRate == <<"{">> \o Key("totalCost") \o <<"1", "}">>

\* Decodable, ratePerKwh a string and totalCost negative.
BillRateStr ==
    <<"{">> \o Key("totalCost") \o <<"-1", ",">> \o Key("usage") \o <<"2", ",">> \o
    Key("ratePerKwh") \o Q("high") \o <<"}">>

\* Decodable, not an object.
JsonList == <<"[", "1", "]">>

\* Not JSON.
Prose == <<"Sorry,", " ", "I", " ", "cannot", " ", "read", " ", "this.">>

\* JSON cut off by max_tokens.
BillCut == <<"{">> \o Key("totalCost") \o <<"1", ",">> \o Key("usage")

BenchFull ==
    <<"{">> \o Key("averageRate") \o <<"0.087", ",">> \o Key("averageDemandCharge") \o <<"15.50", ",">> \o
    Key("typicalUsage") \o Q("100,000 kWh/month") \o <<",">> \o
    Key("recommendations") \o <<"[">> \o Q("Install VFDs") \o <<"]", ",">> \o
    Key("sources") \o <<"[">> \o Q("ISO 50001") \o <<"]", "}">>

\* Decodable, averageRate a string and the other fields missing.
BenchMistyped == <<"{">> \o Key("averageRate") \o Q("n/a") \o <<"}">>

ReportFull ==
    <<"{">> \o Key("summary") \o Q("Usage is high") \o <<",">> \o Key("comparison") \o Q("Above average") \o <<",">> \o
    Key("savings") \o <<"[">> \o Q("VFDs") \o <<"]", ",">> \o Key("nextSteps") \o <<"[">> \o Q("Audit") \o <<"]", "}">>

\* Decodable, without nextSteps.
ReportNoNext ==
    <<"{">> \o Key("summary") \o Q("Usage is high") \o <<",">> \o Key("comparison") \o Q("Above average") \o <<",">> \o
    Key("savings") \o <<"[">> \o Q("VFDs") \o <<"]", "}">>

\* Cut off inside the nextSteps array.
ReportCut ==
    <<"{">> \o Key("summary") \o Q("Usage is high") \o <<",">> \o Key("nextSteps") \o <<"[">> \o Q("Audit")

Payloads(stage) ==
    CASE stage = "agent1" -> {BillFull, BillTicks, BillNoRate, BillRateStr, JsonList, Prose, BillCut}
      [] stage = "agent2" -> {BenchFull, BenchMistyped, JsonList, Prose}
      [] stage = "agent3" -> {ReportFull, ReportNoNext, ReportCut, Prose}

Wrappers == {"plain", "fence_json", "fence", "padded"}

\* The content of a response: the payload as the delegate wraps it.
Wrap(w, j) ==
    CASE w = "plain"      -> j
      [] w = "fence_json" -> FenceJson \o <<"\n">> \o j \o <<"\n">> \o Fence
      [] w = "fence"      -> Fence \o <<"\n">> \o j \o <<"\n">> \o Fence \o <<"\n">>
      [] w = "padded"     -> <<" ", "\n">> \o j \o <<"\n">>

\* client.chat.completions.create either raises or returns a response.
Raised == [kind |-> "raise", wrap |-> "plain", payload |-> <<>>]

Outcomes(stage) ==
    {Raised} \cup
    {[kind |-> "text", wrap |-> w, payload |-> j] : w \in Wrappers, j \in Payloads(stage)}

Content(o) == Wrap(o.wrap, o.payload)

(***************************************************************************)
(* The three agents                                                        *)
(***************************************************************************)
Return(v) == [ok |-> TRUE, val |-> v]

Raise(e) == [ok |-> FALSE, error |-> e]

\* The fallback also covering a failed request.
run_agent_2_catch_all(o) ==
    IF o.kind = "raise" THEN Return(Fallback)
    ELSE LET r == JsonLoads(Normalize(Content(o)))
         IN  IF r.ok THEN Return(r.val) ELSE Return(Fallback)

\* run_agent_1 with run_agent_2's way of handling a failure: an empty record.
run_agent_1_swallow(o) ==
    IF o.kind = "raise" THEN Return(EmptyObj)
    ELSE LET r == JsonLoads(Normalize(Content(o)))
         IN  IF r.ok THEN Return(r.val) ELSE Return(EmptyObj)

\* run_agent_1: the request, the normalization, json.loads.
run_agent_1(o) ==
    IF o.kind = "raise" THEN Raise("APIError")
    ELSE LET r == JsonLoads(Normalize(Content(o)))
         IN  IF r.ok THEN Return(r.val) ELSE Raise("JSONDecodeError")

\* run_agent_2: the request outside the try, json.loads inside it.
run_agent_2(o) ==
    IF o.kind = "raise" THEN Raise("APIError")
    ELSE LET r == JsonLoads(Normalize(Content(o)))
         IN  IF r.ok THEN Return(r.val) ELSE Return(Fallback)

\* run_agent_3: json.dumps of both arguments goes into the prompt.
run_agent_3(bill_data, research_data, o) ==
    IF o.kind = "raise" THEN Raise("APIError")
    ELSE LET r == JsonLoads(Normalize(Content(o)))
         IN  IF r.ok THEN Return(r.val) ELSE Raise("JSONDecodeError")

\* 0.15, the rate the query takes when the bill has none.
DefaultRate == 1500

\* 0, the usage the query takes when the bill has none.
DefaultUsage == 0

\* format(x, ".3f"): ten-thousandths rounded to thousandths.
Fmt3(n) == (n + 5) \div 10

\* The f-string of the Run Analysis handler that builds search_context.
SearchContext(bill) ==
    IF bill.t # "obj" THEN Raise("AttributeError")
    ELSE LET rate == Get(bill, "ratePerKwh", Num(DefaultRate))
         IN  IF rate.t = "str" THEN Raise("ValueError")
             ELSE IF rate.t # "num" THEN Raise("TypeError")
             ELSE Return([rate |-> Fmt3(rate.v),
                          usage |-> Get(bill, "usage", Num(DefaultUsage))])

\* str(e)
StrOf(e) ==
    CASE e = "APIError"        -> "Connection error."
      [] e = "JSONDecodeError" -> "Expecting value: line 1 column 1 (char 0)"
      [] e = "AttributeError"  -> "'list' object has no attribute 'get'"
      [] e = "ValueError"      -> "Unknown format code 'f' for object of type 'str'"
      [] e = "TypeError"       -> "unsupported format string passed to list.__format__"

(***************************************************************************)
(* Display results                                                         *)
(***************************************************************************)
\* data.get(k, default) formatted as a number.
FormatsAsNumber(data, k) == Has(data, k) => Item(data, k).t = "num"

\* for x in data.get(k, [])
Iterates(data, k) == Has(data, k) => Iterable(Item(data, k))

\* if data.get(k): for x in data[k]
IteratesIfTruthy(data, k) ==
    (Has(data, k) /\ Truthy(Item(data, k))) => Iterable(Item(data, k))

BillRenders(data) ==
    /\ data.t = "obj"
    /\ \A k \in {"totalCost", "usage", "demandKw", "powerFactor", "ratePerKwh"} :
          FormatsAsNumber(data, k)
    /\ IteratesIfTruthy(data, "unusualCharges")

ResearchRenders(data) ==
    /\ data.t = "obj"
    /\ FormatsAsNumber(data, "averageRate")
    /\ FormatsAsNumber(data, "averageDemandCharge")
    /\ Iterates(data, "recommendations")
    /\ IteratesIfTruthy(data, "sources")

ReportRenders(data) ==
    /\ data.t = "obj"
    /\ Iterates(data, "savings")
    /\ Iterates(data, "nextSteps")

\* The sections the script renders from the session state, and whether it
\* ended in an uncaught exception.
Display(ss) ==
    IF "bill_analysis" \notin DOMAIN ss THEN [sections |-> {}, exception |-> FALSE]
    ELSE IF ~BillRenders(ss["bill_analysis"]) THEN [sections |-> {}, exception |-> TRUE]
    ELSE IF "web_research" \in DOMAIN ss /\ ~ResearchRenders(ss["web_research"])
         THEN [sections |-> {"bill_analysis"}, exception |-> TRUE]
    ELSE IF "final_report" \in DOMAIN ss /\ ~ReportRenders(ss["final_report"])
         THEN [sections |-> {"bill_analysis"} \cup (DOMAIN ss \cap {"web_research"}),
               exception |-> TRUE]
    ELSE [sections |-> DOMAIN ss, exception |-> FALSE]

(***************************************************************************)
(* The script.  One run of it per interaction; the Run Analysis handler    *)
(* blocks in each agent's request, so it is three steps.  Beside the       *)
(* program's state the model records, per run: calls (the agents whose     *)
(* request was made, in order), response (what each answered), wrote (the  *)
(* session keys the run assigned), failedAt (the block that raised) and    *)
(* agent3_args (the arguments of run_agent_3).                             *)
(***************************************************************************)
None == [t |-> "none"]

NoMessage == [kind |-> "none", text |-> ""]

NoContext == [rate |-> 0, usage |-> None]

Stages == <<"agent1", "agent2", "agent3">>

KeyOf(stage) ==
    CASE stage = "agent1" -> "bill_analysis"
      [] stage = "agent2" -> "web_research"
      [] stage = "agent3" -> "final_report"

\* session_state[k] = v
Assign(ss, k, v) == (k :> v) @@ ss

\* The three assignments of the Try Sample Data handler, one of them lost.
SampleStateNoResearch(ss) ==
    Assign(Assign(ss, "bill_analysis", SampleBill), "final_report", SampleReport)

\* The three assignments of the Try Sample Data handler.
SampleState(ss) ==
    Assign(Assign(Assign(ss, "bill_analysis", SampleBill),
                  "web_research", SampleResearch),
           "final_report", SampleReport)

\* A script run that starts no analysis: the last run's locals and messages are gone.
NoRun ==
    /\ pc' = "idle"
    /\ bill_analysis' = None
    /\ web_research' = None
    /\ search_context' = NoContext
    /\ calls' = <<>>
    /\ wrote' = {}
    /\ failedAt' = "none"
    /\ response' = <<>>
    /\ agent3_args' = <<>>

\* The file uploader gets a file, or loses it.
Upload ==
    /\ pc = "idle"
    /\ uploaded_file' = ~uploaded_file
    /\ message' = NoMessage
    /\ displayed' = Display(session_state)
    /\ NoRun
    /\ UNCHANGED <<session_state, normVars>>

\* The Try Sample Data button.
TrySampleData ==
    /\ pc = "idle"
    /\ session_state' = SampleState(session_state)
    /\ message' = [kind |-> "success", text |-> "Sample manufacturing facility analysis loaded!"]
    /\ displayed' = Display(session_state')
    /\ NoRun
    /\ UNCHANGED <<uploaded_file, normVars>>

\* The Run Analysis button, up to the request of run_agent_1.
RunAnalysis ==
    /\ pc = "idle"
    /\ uploaded_file
    /\ pc' = "agent1"
    /\ message' = NoMessage
    /\ displayed' = [sections |-> {}, exception |-> FALSE]
    /\ bill_analysis' = None
    /\ web_research' = None
    /\ search_context' = NoContext
    /\ calls' = <<>>
    /\ wrote' = {}
    /\ failedAt' = "none"
    /\ response' = <<>>
    /\ agent3_args' = <<>>
    /\ UNCHANGED <<session_state, uploaded_file, normVars>>

\* An except clause that also drops what the run had stored.
ExceptRollback(stage, e) ==
    /\ pc' = "idle"
    /\ failedAt' = stage
    /\ message' = [kind |-> "error", text |-> StrOf(e)]
    /\ session_state' = [k \in DOMAIN session_state \ wrote |-> session_state[k]]
    /\ displayed' = Display(session_state')

\* except Exception as e: st.error(...), then the script goes on to Display
\* results; the session state is as the failed block left it.
Except(stage, e) ==
    /\ pc' = "idle"
    /\ failedAt' = stage
    /\ message' = [kind |-> "error", text |-> StrOf(e)]
    /\ session_state' = session_state
    /\ displayed' = Display(session_state')

\* run_agent_1 answers; the handler stores the result.
Agent1 ==
    /\ pc = "agent1"
    /\ \E o \in Outcomes("agent1") :
         LET r == run_agent_1(o)
         IN  /\ calls' = Append(calls, "agent1")
             /\ response' = ("agent1" :> o) @@ response
             /\ IF r.ok
                THEN /\ bill_analysis' = r.val
                     /\ session_state' = Assign(session_state, "bill_analysis", r.val)
                     /\ wrote' = wrote \cup {"bill_analysis"}
                     /\ pc' = "agent2"
                     /\ UNCHANGED <<failedAt, message, displayed>>
                ELSE /\ Except("agent1", r.error)
                     /\ UNCHANGED <<bill_analysis, wrote>>
    /\ UNCHANGED <<uploaded_file, web_research, search_context, agent3_args, normVars>>

\* search_context is derived, run_agent_2 answers, the handler stores the result.
Agent2 ==
    /\ pc = "agent2"
    /\ LET q == SearchContext(bill_analysis)
       IN  IF ~q.ok
           THEN /\ Except("agent2", q.error)
                /\ UNCHANGED <<web_research, search_context, calls, response, wrote>>
           ELSE /\ search_context' = q.val
                /\ \E o \in Outcomes("agent2") :
                     LET r == run_agent_2(o)
                     IN  /\ calls' = Append(calls, "agent2")
                         /\ response' = ("agent2" :> o) @@ response
                         /\ IF r.ok
                            THEN /\ web_research' = r.val
                                 /\ session_state' = Assign(session_state, "web_research", r.val)
                                 /\ wrote' = wrote \cup {"web_research"}
                                 /\ pc' = "agent3"
                                 /\ UNCHANGED <<failedAt, message, displayed>>
                            ELSE /\ Except("agent2", r.error)
                                 /\ UNCHANGED <<web_research, wrote>>
    /\ UNCHANGED <<uploaded_file, bill_analysis, agent3_args, normVars>>

\* run_agent_3 answers; the handler stores the result and reports success.
Agent3 ==
    /\ pc = "agent3"
    /\ agent3_args' = <<bill_analysis, web_research>>
    /\ \E o \in Outcomes("agent3") :
         LET r == run_agent_3(bill_analysis, web_research, o)
         IN  /\ calls' = Append(calls, "agent3")
             /\ response' = ("agent3" :> o) @@ response
             /\ IF r.ok
                THEN /\ session_state' = Assign(session_state, "final_report", r.val)
                     /\ wrote' = wrote \cup {"final_report"}
                     /\ pc' = "idle"
                     /\ message' = [kind |-> "success", text |-> "Analysis complete in seconds!"]
                     /\ displayed' = Display(session_state')
                     /\ UNCHANGED failedAt
                ELSE /\ Except("agent3", r.error)
                     /\ UNCHANGED wrote
    /\ UNCHANGED <<uploaded_file, bill_analysis, web_research, search_context, normVars>>

(***************************************************************************)
(* The normalization on its own: raw is any text built from a few pieces,  *)
(* once and twice are one and two applications of it.                      *)
(***************************************************************************)
MaxPieces == 4

Pieces == {<<BT>>, Fence, FenceJson, <<"j", "s">>, <<"o", "n">>, <<" ">>, <<"{">>}

RECURSIVE Texts(_)
Texts(n) ==
    IF n = 0 THEN {<<>>}
    ELSE LET shorter == Texts(n - 1)
         IN  shorter \cup {t \o p : t \in shorter, p \in Pieces}

NotRun == <<"not run">>

NormalizeOnce ==
    /\ once = NotRun
    /\ once' = Normalize(raw)
    /\ UNCHANGED <<raw, twice, appVars>>

NormalizeTwice ==
    /\ once # NotRun
    /\ twice = NotRun
    /\ twice' = Normalize(once)
    /\ UNCHANGED <<raw, once, appVars>>

AppInit ==
    /\ session_state = <<>>
    /\ uploaded_file = FALSE
    /\ pc = "idle"
    /\ bill_analysis = None
    /\ web_research = None
    /\ search_context = NoContext
    /\ message = NoMessage
    /\ displayed = [sections |-> {}, exception |-> FALSE]
    /\ calls = <<>>
    /\ wrote = {}
    /\ failedAt = "none"
    /\ response = <<>>
    /\ agent3_args = <<>>

Init ==
    /\ AppInit
    /\ raw = <<>>
    /\ once = NotRun
    /\ twice = NotRun

Next ==
    \/ Upload
    \/ TrySampleData
    \/ RunAnalysis
    \/ Agent1
    \/ Agent2
    \/ Agent3

Spec == Init /\ [][Next]_vars

NormInit ==
    /\ AppInit
    /\ raw \in Texts(MaxPieces)
    /\ once = NotRun
    /\ twice = NotRun

NormNext ==
    \/ NormalizeOnce
    \/ NormalizeTwice

SpecNorm == NormInit /\ [][NormNext]_vars

(***************************************************************************)
(* Properties                                                              *)
(***************************************************************************)
Called(stage) == \E i \in 1..Len(calls) : calls[i] = stage

\* The delegate of the stage answered, and the answer decodes after normalization.
Answered(stage) ==
    /\ stage \in DOMAIN response
    /\ response[stage].kind = "text"

Decoded(stage) == JsonLoads(Normalize(Content(response[stage])))

Stored(k) == k \in DOMAIN session_state

\* The record schemas of the data model.
NonNegative(d, k) == Item(d, k).t = "num" /\ Item(d, k).v >= 0

IsText(d, k) == Item(d, k).t = "str"

IsTextSeq(d, k) ==
    /\ Item(d, k).t = "arr"
    /\ \A i \in 1..Len(Item(d, k).v) : Item(d, k).v[i].t = "str"

ValidBillFacts(v) ==
    /\ v.t = "obj"
    /\ \A k \in {"totalCost", "usage", "ratePerKwh", "billingPeriod",
                 "unusualCharges", "insights"} : Has(v, k)
    /\ \A k \in {"totalCost", "usage", "ratePerKwh"} : NonNegative(v, k)
    /\ \A k \in {"demandKw", "powerFactor"} : Has(v, k) => NonNegative(v, k)
    /\ IsText(v, "billingPeriod")
    /\ IsTextSeq(v, "unusualCharges")
    /\ IsText(v, "insights")

ValidBenchmarkFacts(v) ==
    /\ v.t = "obj"
    /\ \A k \in {"averageRate", "typicalUsage", "recommendations", "sources"} : Has(v, k)
    /\ NonNegative(v, "averageRate")
    /\ Has(v, "averageDemandCharge") => NonNegative(v, "averageDemandCharge")
    /\ IsText(v, "typicalUsage")
    /\ IsTextSeq(v, "recommendations")
    /\ IsTextSeq(v, "sources")

\* C1: in every run the Benchmarker's request is made only after the
\* Extractor's delegate answered with a decodable text and bill_analysis was
\* stored by this run, the Reporter's only after bill_analysis and web_research
\* were both stored by this run (the fallback record counts), the requests are
\* made in stage order, and once a block has failed the run is over with no
\* later request made.
C1_Sequencing ==
    /\ \E n \in 0..3 : calls = SubSeq(Stages, 1, n)
    /\ Called("agent2") =>
          /\ Answered("agent1") /\ Decoded("agent1").ok
          /\ "bill_analysis" \in wrote
          /\ Stored("bill_analysis")
    /\ Called("agent3") =>
          /\ Answered("agent2")
          /\ {"bill_analysis", "web_research"} \subseteq wrote
          /\ Stored("bill_analysis") /\ Stored("web_research")
    /\ pc = "agent2" => calls = <<"agent1">> /\ "bill_analysis" \in wrote
    /\ pc = "agent3" => calls = <<"agent1", "agent2">> /\ "web_research" \in wrote
    /\ failedAt # "none" => pc = "idle"
    /\ failedAt = "agent1" => calls = <<"agent1">> /\ wrote = {}
    /\ failedAt = "agent2" => ~Called("agent3") /\ wrote = {"bill_analysis"}

\* C1's case: a run whose Benchmarker fell back and whose Reporter was then called.
C1_Witness ==
    /\ Called("agent3")
    /\ ~Decoded("agent2").ok
    /\ web_research = Fallback

\* C2: when a run has failed in the Benchmarker's block, the bill_analysis
\* this run's Extractor produced is still the stored one; when it has failed in
\* the Reporter's block, so are this run's bill_analysis and web_research.
C2_PartialResultsKept ==
    /\ failedAt \in {"agent2", "agent3"} =>
          /\ Stored("bill_analysis")
          /\ session_state["bill_analysis"] = Decoded("agent1").val
          /\ session_state["bill_analysis"] = bill_analysis
    /\ failedAt = "agent3" =>
          /\ Stored("web_research")
          /\ session_state["web_research"] = web_research
          /\ web_research = IF Decoded("agent2").ok THEN Decoded("agent2").val ELSE Fallback

\* C2's case: a run that stored two results and failed in the Reporter.
C2_Witness ==
    /\ failedAt = "agent3"
    /\ wrote = {"bill_analysis", "web_research"}

\* C3 (as claimed): after a failed run the result of the failed stage and of
\* every later stage is absent, whatever earlier invocations had stored.
C3_FailedRunHidesOlderResults ==
    /\ failedAt = "agent1" =>
          ~Stored("bill_analysis") /\ ~Stored("web_research") /\ ~Stored("final_report")
    /\ failedAt = "agent2" => ~Stored("web_research") /\ ~Stored("final_report")
    /\ failedAt = "agent3" => ~Stored("final_report")

\* The flag by which a caller would read that the benchmark is the fallback.
DegradedFlag ==
    \/ Stored("degraded")
    \/ (web_research.t = "obj" /\ Has(web_research, "degraded"))

\* C4 (as claimed): whenever the Benchmarker's answer is not a valid
\* BenchmarkFacts record (not JSON, or JSON of another shape), the run goes on
\* with exactly the fallback record as web_research and a degraded flag set.
C4_InvalidBenchmarkFallsBack ==
    (/\ Answered("agent2")
     /\ ~(Decoded("agent2").ok /\ ValidBenchmarkFacts(Decoded("agent2").val)))
    => /\ failedAt # "agent2"
       /\ web_research = Fallback
       /\ session_state["web_research"] = Fallback
       /\ DegradedFlag
       /\ Called("agent3") => agent3_args[2] = Fallback

\* C5: when the Benchmarker's request itself fails, the run has failed in the
\* Benchmarker's block, this run stored no web_research (the fallback included)
\* and the Reporter's request is not made; a web_research stored by a run comes
\* from a delegate's answer.
C5_UpstreamFailureNotRecovered ==
    /\ ("agent2" \in DOMAIN response /\ response["agent2"].kind = "raise") =>
          /\ failedAt = "agent2"
          /\ pc = "idle"
          /\ "web_research" \notin wrote
          /\ web_research = None
          /\ ~Called("agent3")
    /\ "web_research" \in wrote => Answered("agent2")

\* C5's case: the Benchmarker's request failed after the Extractor succeeded.
C5_Witness ==
    /\ "agent2" \in DOMAIN response
    /\ response["agent2"].kind = "raise"
    /\ "bill_analysis" \in wrote

\* C6 (as claimed): what a run stores as bill_analysis is a BillFacts record
\* with every required field present and the numeric ones non-negative.
C6_StoredBillIsValid ==
    "bill_analysis" \in wrote => ValidBillFacts(session_state["bill_analysis"])

\* What a caller reads off the stored results: the first stage without one.
FirstAbsent(ss) ==
    IF "bill_analysis" \notin DOMAIN ss THEN "agent1"
    ELSE IF "web_research" \notin DOMAIN ss THEN "agent2"
    ELSE IF "final_report" \notin DOMAIN ss THEN "agent3"
    ELSE "none"

\* C7 (as claimed): after a failed run the session state tells that the run
\* failed and at which stage.
C7_FailedStageRecorded ==
    failedAt # "none" =>
        \/ (Stored("failed_stage") /\ session_state["failed_stage"] = failedAt)
        \/ FirstAbsent(session_state) = failedAt

\* C8: normalizing a normalized text changes nothing.
C8_NormalizeIdempotent == twice # NotRun => twice = once

RECURSIVE Contains(_, _)
Contains(s, pat) ==
    /\ Len(s) >= Len(pat)
    /\ (SubSeq(s, 1, Len(pat)) = pat \/ Contains(Tail(s), pat))

\* C8's case: removing a marker joined its neighbours into a new marker, and
\* the text was normalized twice.
C8_Witness ==
    /\ twice # NotRun
    /\ Contains(RemoveAll(raw, FenceJson), FenceJson)

\* C9 (as claimed): when a delegate answers with a JSON object text, bare,
\* fenced or padded, the stage returns the record that text denotes and the run
\* goes on.
C9_FenceStrippingKeepsRecord ==
    \A stage \in DOMAIN response :
        (/\ response[stage].kind = "text"
         /\ JsonLoads(response[stage].payload).ok
         /\ JsonLoads(response[stage].payload).val.t = "obj")
        => /\ KeyOf(stage) \in wrote
           /\ session_state[KeyOf(stage)] = JsonLoads(response[stage].payload).val

\* C10: the stored results are a prefix of the stage order, and no step
\* removes a stored result.
C10_PrefixInvariant ==
    /\ [](/\ Stored("final_report") => Stored("web_research")
          /\ Stored("web_research") => Stored("bill_analysis")
          /\ DOMAIN session_state \subseteq {"bill_analysis", "web_research", "final_report"})
    /\ [][DOMAIN session_state \subseteq DOMAIN session_state']_vars

\* C10's case: results of a sample load under those of a later run that failed.
C10_Witness ==
    /\ failedAt = "agent2"
    /\ "bill_analysis" \in wrote
    /\ Stored("final_report")
    /\ session_state["final_report"] = SampleReport

====
